---- MODULE Spec2Model ----
(***************************************************************************)
(* Reddit sentiment pipeline: the ticker extractor (collector.py), the     *)
(* producers that append candidate posts to the raw_posts stream           *)
(* (collector.py, api.py), the consumer task that scores them and writes   *)
(* sentiment rows (tasks.py), and the on-demand waiter (api.py).           *)
(*                                                                         *)
(* Text is a sequence of one-character strings; words and tickers are      *)
(* strings.  Scores and probabilities are kept in hundredths.              *)
(***************************************************************************)
EXTENDS Integers, Sequences, FiniteSets, TLC

(* ---------------------------------------------------------------- text *)

AZ == {"A","B","C","D","E","F","G","H","I","J","K","L","M",
       "N","O","P","Q","R","S","T","U","V","W","X","Y","Z"}

LowerToUpper ==
    [a |-> "A", b |-> "B", c |-> "C", d |-> "D", e |-> "E", f |-> "F", g |-> "G",
     h |-> "H", i |-> "I", j |-> "J", k |-> "K", l |-> "L", m |-> "M", n |-> "N",
     o |-> "O", p |-> "P", q |-> "Q", r |-> "R", s |-> "S", t |-> "T", u |-> "U",
     v |-> "V", w |-> "W", x |-> "X", y |-> "Y", z |-> "Z"]

az == DOMAIN LowerToUpper

UpperToLower ==
    [c \in AZ |-> CHOOSE a \in az : LowerToUpper[a] = c]

Digits == {"0","1","2","3","4","5","6","7","8","9"}

\* str.upper() and str.lower(), character by character
upper(text) ==
    [i \in 1..Len(text) |-> IF text[i] \in az THEN LowerToUpper[text[i]] ELSE text[i]]

lower(text) ==
    [i \in 1..Len(text) |-> IF text[i] \in AZ THEN UpperToLower[text[i]] ELSE text[i]]

\* the regex classes \w and \s
IsWordChar(c) == c \in AZ \cup az \cup Digits \cup {"_"}

IsSpace(c) == c \in {" ", "\t", "\n"}

\* the string spelled by a sequence of characters
RECURSIVE Str(_)
Str(cs) == IF cs = <<>> THEN "" ELSE Head(cs) \o Str(Tail(cs))

\* Python's `word in text` for strings: word occurs as a substring
Contains(text, word) ==
    \E i \in 1..(Len(text) - Len(word) + 1) :
        Str(SubSeq(text, i, i + Len(word) - 1)) = word

\* text[i..] starts with word
StartsWithAt(text, i, word) ==
    /\ i + Len(word) - 1 <= Len(text)
    /\ Str(SubSeq(text, i, i + Len(word) - 1)) = word

\* the regex assertion \b between text[i-1] and text[i]
BoundaryAt(text, i) ==
    LET before == i - 1 >= 1 /\ i - 1 <= Len(text) /\ IsWordChar(text[i - 1])
        after  == i >= 1 /\ i <= Len(text) /\ IsWordChar(text[i])
    IN  before # after

\* number of consecutive characters of [A-Z] from position i
RECURSIVE LetterRun(_, _)
LetterRun(text, i) ==
    IF i <= Len(text) /\ text[i] \in AZ THEN 1 + LetterRun(text, i + 1) ELSE 0

\* number of consecutive \s characters from position i
RECURSIVE SpaceRun(_, _)
SpaceRun(text, i) ==
    IF i <= Len(text) /\ IsSpace(text[i]) THEN 1 + SpaceRun(text, i + 1) ELSE 0

(* ------------------------------------------------- collector.py: extractor *)

COMMON_WORDS == {
    "IS", "IT", "TO", "ON", "IN", "OR", "OF", "AT", "BY", "UP", "NO", "SO", "GO", "DO", "IF", "BE", "WE", "ME", "MY", "HE", "AN", "AS",
    "THE", "AND", "FOR", "ARE", "BUT", "NOT", "YOU", "ALL", "CAN", "HER", "WAS", "ONE", "OUR", "OUT", "DAY", "GET", "HAS", "HIM",
    "OLD", "SEE", "TWO", "HOW", "ITS", "NOW", "NEW", "MAY", "WAY", "WHO", "BOY", "USE", "MAN", "SHE", "AIR", "TOP", "LOW", "END",
    "BIG", "SET", "OWN", "PUT", "SAY", "TRY", "WHY", "LET", "BAD", "TOO", "RUN", "EYE", "FAR", "OFF", "ADD", "LOT", "BAG",
    "THIS", "THAT", "WITH", "HAVE", "THEY", "WILL", "BEEN", "WERE", "SAID", "EACH", "ONLY", "ALSO", "BACK", "CALL", "CAME", "DONE",
    "EVEN", "FIND", "GOOD", "HELP", "JUST", "KEEP", "KNOW", "LAST", "LEFT", "LIKE", "LIVE", "LOOK", "MADE", "MAKE", "MANY", "MOST",
    "MOVE", "MUST", "NAME", "NEED", "NEXT", "OPEN", "OVER", "PART", "PLAY", "REAL", "SAME", "SEEM", "SHOW", "TAKE", "TELL", "THAN",
    "THEM", "TURN", "VERY", "WANT", "WELL", "WENT", "WHAT", "WHEN", "WHERE", "WORK", "YEAR", "YOUR", "FROM", "WOULD", "THERE",
    "COULD", "OTHER", "AFTER", "FIRST", "NEVER", "THESE", "THINK", "BEING", "EVERY", "GREAT", "MIGHT", "SHALL", "STILL",
    "THOSE", "UNDER", "WHILE", "SHOULD", "AROUND", "BEFORE", "DURING", "FOLLOW", "HAVING", "PUBLIC", "SCHOOL", "SECOND", "SYSTEM",
    "CASH", "DEBT", "LOAN", "RATE", "FEES", "FUND", "LOSS", "GAIN", "RISK", "HIGH", "BULL", "BEAR", "LONG", "PUTS",
    "BANK", "CARD", "PLAN", "SAVE", "SELL", "HOLD", "DOWN", "WEEK", "TIME", "DAYS", "MUCH", "LESS", "MORE",
    "COST", "PAID", "BILL", "RENT", "FOOD", "HOME", "LIFE", "JOBS", "PAYS", "NICE", "BEST", "EASY", "HARD",
    "PRICE", "VALUE", "WORTH", "TOTAL", "POINT", "SHARE", "STOCK", "TRADE", "CALLS", "SHORT", "MARKET", "MONEY",
    "DOING", "POOR", "INTO", "HERE", "SOME",
    "AI", "VS", "TECH", "SECTOR", "AREA", "WALL", "PLACE", "TEAM", "LATE", "LATER", "EARLY", "FAST", "SLOW",
    "BOTH", "TODAY", "NEAR", "SUCH",
    "ABOVE", "BELOW", "ABOUT", "OFTEN", "SEEMS", "GOING", "FEELS", "MAKES", "LOOKS", "COMES", "TAKES",
    "YEARS", "MONTH", "HOURS", "DAILY", "THEIR", "WHICH", "WEIRD", "WISE", "CLEAR",
    "SPACE", "LEVEL", "RIGHT", "PEACE", "TRUTH", "LEARN", "TRULY", "STAGE", "FRESH", "SMALL",
    "HUGE", "MICRO", "MACRO", "BASED", "GIVEN", "ENDED", "HOLDS", "PARTS", "DEALS", "NOTES", "TOOLS" }

FINANCIAL_WORDS == {
    "STOCK", "STOCKS", "SHARE", "SHARES", "TICKER", "SYMBOL", "NYSE", "NASDAQ", "TRADING", "TRADE", "PORTFOLIO", "INVESTMENT", "INVEST", "EQUITY", "SECURITIES", "EARNINGS", "DIVIDEND", "PRICE", "TARGET", "ANALYST", "BULL", "BEAR", "MARKET", "MARKETS", "S&P", "DOW", "RUSSELL", "INDEX", "FUND", "ETF", "BUY", "SELL", "HOLD", "BOUGHT", "SOLD", "HOLDING", "BUYING", "SELLING", "CALL", "CALLS", "PUT", "PUTS", "OPTION", "OPTIONS", "FUTURES", "REVENUE", "PROFIT", "LOSS", "GAIN", "GROWTH", "VALUATION", "PERFORMANCE", "INCLUDES", "ALLOCATION", "ANALYSIS", "THESIS", "REPORT", "UP", "DOWN", "VS", "SECTOR", "AI", "TECH", "CRYPTO", "COIN" }

ENGLISH_WORDS ==
    {"FROM", "THAT", "THIS", "WITH", "WHAT", "WHEN", "WHERE", "THEY", "THEM",
     "WILL", "BEEN", "WERE"}

\* the alternatives of TICKER_RE_CONTEXT and of TICKER_RE_MENTIONS
CONTEXT_KEYWORDS ==
    {"stock", "ticker", "share", "call", "put", "option", "earning", "price",
     "target", "buy", "sell", "hold"}

MENTION_VERBS == {"buying", "selling", "holding", "bought", "sold", "trading"}

\* [A-Z] under re.IGNORECASE matches either case
RECURSIVE LetterRunI(_, _)
LetterRunI(text, i) ==
    IF i <= Len(text) /\ text[i] \in AZ \cup az THEN 1 + LetterRunI(text, i + 1) ELSE 0

\* a literal alternative matched at i under re.IGNORECASE
StartsWithAtI(text, i, word) ==
    /\ i + Len(word) - 1 <= Len(text)
    /\ Str(lower(SubSeq(text, i, i + Len(word) - 1))) = word

Max(S) == CHOOSE x \in S : \A y \in S : y <= x

\* TICKER_RE_DOLLAR = \$([A-Z]{1,5})\b at position i: the number of letters
\* captured (the greedy choice), 0 when there is no match at i
DollarLen(text, i) ==
    IF i <= Len(text) /\ text[i] = "$"
    THEN LET ks == {k \in 1..5 : k <= LetterRun(text, i + 1)
                                  /\ BoundaryAt(text, i + 1 + k)}
         IN  IF ks = {} THEN 0 ELSE Max(ks)
    ELSE 0

\* variant: the marked form is filtered with the denylist like the other forms
RECURSIVE DollarFindall_denylisted(_, _)
DollarFindall_denylisted(text, i) ==
    IF i > Len(text) THEN <<>>
    ELSE LET k == DollarLen(text, i)
         IN  IF k = 0 THEN DollarFindall_denylisted(text, i + 1)
             ELSE (IF Str(SubSeq(text, i + 1, i + k)) \in COMMON_WORDS THEN <<>>
                   ELSE <<Str(SubSeq(text, i + 1, i + k))>>)
                  \o DollarFindall_denylisted(text, i + 1 + k)

RECURSIVE DollarFindall(_, _)
DollarFindall(text, i) ==
    IF i > Len(text) THEN <<>>
    ELSE LET k == DollarLen(text, i)
         IN  IF k = 0 THEN DollarFindall(text, i + 1)
             ELSE <<Str(SubSeq(text, i + 1, i + k))>> \o DollarFindall(text, i + 1 + k)

\* TICKER_RE_CONTEXT at position i: <<letters captured, end of the match>>,
\* <<0, 0>> when there is no match at i.  The letters are followed by \s+, so
\* the only candidates are whole letter runs and whole space runs.
ContextAt(text, i) ==
    LET k  == LetterRunI(text, i)
        sp == SpaceRun(text, i + k)
        j  == i + k + sp
        ends == {e \in j..(Len(text) + 1) :
                   \E kw \in CONTEXT_KEYWORDS :
                      /\ StartsWithAtI(text, j, kw)
                      /\ \/ e = j + Len(kw)
                         \/ /\ e = j + Len(kw) + 1
                            /\ e - 1 <= Len(text)
                            /\ text[e - 1] \in {"s", "S"}
                      /\ BoundaryAt(text, e)}
    IN  IF BoundaryAt(text, i) /\ k >= 2 /\ k <= 5 /\ sp >= 1 /\ ends # {}
        THEN <<k, Max(ends)>>
        ELSE <<0, 0>>

RECURSIVE ContextFindall(_, _)
ContextFindall(text, i) ==
    IF i > Len(text) THEN <<>>
    ELSE LET m == ContextAt(text, i)
         IN  IF m[1] = 0 THEN ContextFindall(text, i + 1)
             ELSE <<Str(SubSeq(text, i, i + m[1] - 1))>> \o ContextFindall(text, m[2])

\* TICKER_RE_MENTIONS at position i: <<start of the letters captured, their
\* number>>, <<0, 0>> when there is no match at i
MentionAt(text, i) ==
    LET vs == {v \in MENTION_VERBS : StartsWithAtI(text, i, v)}
        hits == {<<j, k>> \in (1..(Len(text) + 1)) \X (2..5) :
                   \E v \in vs :
                      /\ SpaceRun(text, i + Len(v)) >= 1
                      /\ j = i + Len(v) + SpaceRun(text, i + Len(v))
                      /\ k <= LetterRunI(text, j)
                      /\ BoundaryAt(text, j + k)}
    IN  IF BoundaryAt(text, i) /\ hits # {}
        THEN CHOOSE h \in hits : \A g \in hits : g[2] <= h[2]
        ELSE <<0, 0>>

RECURSIVE MentionFindall(_, _)
MentionFindall(text, i) ==
    IF i > Len(text) THEN <<>>
    ELSE LET m == MentionAt(text, i)
         IN  IF m[2] = 0 THEN MentionFindall(text, i + 1)
             ELSE <<Str(SubSeq(text, m[1], m[1] + m[2] - 1))>>
                  \o MentionFindall(text, m[1] + m[2])

\* standalone_pattern = \b([A-Z]{2,5})\b at position i: letters captured, or 0
StandaloneLen(text, i) ==
    LET ks == {k \in 2..5 : k <= LetterRun(text, i) /\ BoundaryAt(text, i + k)}
    IN  IF BoundaryAt(text, i) /\ ks # {} THEN Max(ks) ELSE 0

RECURSIVE StandaloneFindall(_, _)
StandaloneFindall(text, i) ==
    IF i > Len(text) THEN <<>>
    ELSE LET k == StandaloneLen(text, i)
         IN  IF k = 0 THEN StandaloneFindall(text, i + 1)
             ELSE <<Str(SubSeq(text, i, i + k - 1))>> \o StandaloneFindall(text, i + k)

Range(f) == {f[x] : x \in DOMAIN f}

financial_context_found(text_upper) ==
    \E word \in FINANCIAL_WORDS : Contains(text_upper, word)

\* variant: with finance context the standalone tokens are not filtered with
\* the denylist
extract_tickers_context_unfiltered(text) ==
    LET text_upper == upper(text)
        dollar_matches == Range(DollarFindall(text_upper, 1))
        validated_context ==
            {t \in Range(ContextFindall(text_upper, 1)) : t \notin COMMON_WORDS}
        validated_mentions ==
            {t \in Range(MentionFindall(text_upper, 1)) : t \notin COMMON_WORDS}
        potential_tickers == Range(StandaloneFindall(text_upper, 1))
        standalone ==
            IF financial_context_found(text_upper)
            THEN {t \in potential_tickers : Len(t) >= 2}
            ELSE {t \in potential_tickers :
                    t \notin COMMON_WORDS /\ Len(t) >= 4 /\ t \notin ENGLISH_WORDS}
    IN  dollar_matches \cup validated_context \cup validated_mentions \cup standalone

\* variant: without finance context the standalone tokens need 2 letters only
extract_tickers_short_without_context(text) ==
    LET text_upper == upper(text)
        dollar_matches == Range(DollarFindall(text_upper, 1))
        validated_context ==
            {t \in Range(ContextFindall(text_upper, 1)) : t \notin COMMON_WORDS}
        validated_mentions ==
            {t \in Range(MentionFindall(text_upper, 1)) : t \notin COMMON_WORDS}
        potential_tickers == Range(StandaloneFindall(text_upper, 1))
        standalone ==
            IF financial_context_found(text_upper)
            THEN {t \in potential_tickers : t \notin COMMON_WORDS /\ Len(t) >= 2}
            ELSE {t \in potential_tickers :
                    t \notin COMMON_WORDS /\ Len(t) >= 2 /\ t \notin ENGLISH_WORDS}
    IN  dollar_matches \cup validated_context \cup validated_mentions \cup standalone

\* extract_tickers(text): the union of the four strategies
extract_tickers(text) ==
    LET text_upper == upper(text)
        dollar_matches == Range(DollarFindall(text_upper, 1))
        validated_context ==
            {t \in Range(ContextFindall(text_upper, 1)) : t \notin COMMON_WORDS}
        validated_mentions ==
            {t \in Range(MentionFindall(text_upper, 1)) : t \notin COMMON_WORDS}
        potential_tickers == Range(StandaloneFindall(text_upper, 1))
        standalone ==
            IF financial_context_found(text_upper)
            THEN {t \in potential_tickers : t \notin COMMON_WORDS /\ Len(t) >= 2}
            ELSE {t \in potential_tickers :
                    t \notin COMMON_WORDS /\ Len(t) >= 4 /\ t \notin ENGLISH_WORDS}
    IN  dollar_matches \cup validated_context \cup validated_mentions \cup standalone

(* ------------------------------------------------------- the posts on Reddit *)

\* The posts the text source can return: id, subreddit, title, selftext, created_utc
Posts ==
    { [id |-> "p1", subreddit |-> "stocks", created_utc |-> 100,
       title |-> <<"$","T","S","L","A"," ","u","p">>, selftext |-> <<>>],
      [id |-> "p2", subreddit |-> "stocks", created_utc |-> 200,
       title |-> <<"T","S","L","A"," ","G","M","E">>,
       selftext |-> <<"s","t","o","c","k">>],
      [id |-> "p3", subreddit |-> "wallstreetbets", created_utc |-> 300,
       title |-> <<"t","h","e"," ","c","a","s","h">>,
       selftext |-> <<"i","s"," ","l","o","w">>],
      [id |-> "p4", subreddit |-> "wallstreetbets", created_utc |-> 400,
       title |-> <<"b","o","u","g","h","t"," ","G","M","E">>, selftext |-> <<>>] }

\* f"{post.title} {post.selftext}"
full_text(post) == post.title \o <<" ">> \o post.selftext

\* extract_tickers of every post's full text
Extracted == [p \in Posts |-> extract_tickers(full_text(p))]

\* the tickers a search can be asked for
Tickers == {"TSLA", "GME"}

(* ------------------------------------------------- the tickers field *)

\* ",".join(tickers): the field is the tickers separated by "," tokens
RECURSIVE Join(_)
Join(ts) ==
    IF Len(ts) = 0 THEN <<>>
    ELSE IF Len(ts) = 1 THEN <<ts[1]>>
    ELSE <<ts[1], ",">> \o Join(Tail(ts))

\* field.split(","): the pieces between the separators; "" for an empty piece
RECURSIVE SplitFrom(_, _)
SplitFrom(field, piece) ==
    IF field = <<>> THEN <<piece>>
    ELSE IF Head(field) = "," THEN <<piece>> \o SplitFrom(Tail(field), "")
    ELSE SplitFrom(Tail(field), piece \o Head(field))

\* variant: the field is not split at the separators
Split_whole(field) == <<Str(field)>>

Split(field) == SplitFrom(field, "")

\* the orders in which a set can be iterated
Orders(S) ==
    {o \in [1..Cardinality(S) -> S] : \A i, j \in DOMAIN o : i # j => o[i] # o[j]}

(* ------------------------------------------------------------------ bounds *)

\* entries the stream holds at most
MaxStream == 2

\* queue operations (create, read, ack) that fail with a transport error, at most
MaxQueueErrors == 1

(* ------------------------------------------------------------------- state *)

VARIABLES
    stream,          \* raw_posts: the entries appended, in id order
    group_exists,    \* consumer group "sentiment" was created
    last_delivered,  \* the group's cursor: id of the last entry delivered
    pel,             \* entries delivered to "worker-1" and not acknowledged
    acked,           \* entries acknowledged
    deliveries,      \* how many times each entry was delivered
    store,           \* sentiment_events: the rows inserted, in order
    model_loaded,    \* tasks._model_loaded
    run,             \* the consume_batch runs, by slot
    queue_errors,    \* transport errors so far
    now,             \* the clock, in seconds
    waiter,          \* api.wait_for_processing: the call in progress
    targeted,        \* api.collect_ticker_data and collect_posts_for_ticker
    broad,           \* collector.main: the pass in progress
    search,          \* api.search_ticker: the request in progress
    extraction       \* collector.extract_tickers: the call in progress

pipeline_vars ==
    <<stream, group_exists, last_delivered, pel, acked, deliveries, store,
      model_loaded, run, queue_errors>>

vars == <<pipeline_vars, now, waiter, targeted, broad, search, extraction>>

\* the slots consume_batch runs execute in; runs of one slot follow one another
Slots == {1, 2}

\* the slots in use when runs do not overlap
SerialSlots == {1}

(* ---------------------------------------------------- tasks.py: classifier *)

positive_words ==
    {"good", "great", "excellent", "buy", "bull", "up", "gain", "profit", "win"}

negative_words == {"bad", "terrible", "sell", "bear", "down", "loss", "lose", "crash"}

\* what FinBERT can answer: <<negative, neutral, positive>> in hundredths
FinbertOutputs == { <<10, 10, 80>> }

\* the keyword fallback of classify, used when the model could not be loaded
fallback_sentiment(text) ==
    LET text_lower == lower(text)
        pos_count == Cardinality({w \in positive_words : Contains(text_lower, w)})
        neg_count == Cardinality({w \in negative_words : Contains(text_lower, w)})
    IN  IF pos_count > neg_count THEN <<50, 70, 20>>
        ELSE IF neg_count > pos_count THEN <<-50, 20, 70>>
        ELSE <<0, 40, 40>>

\* fallback_sentiment of the scoring text of every post, computed once
FallbackOfPosts ==
    [text \in {p.title \o <<" ", " ">> \o p.selftext : p \in Posts}
        |-> fallback_sentiment(text)]

\* variant: every failure of the classifier gives the neutral triple
classify_neutral_on_failure(text, loaded, raised, probs) ==
    IF ~loaded \/ raised THEN <<0, 33, 33>>
    ELSE <<probs[3] - probs[1], probs[3], probs[1]>>

\* classify(text) -> <<score, pos, neg>>.  loaded: load_model returned a model;
\* raised: inference raised; probs: the model's answer otherwise
classify(text, loaded, raised, probs) ==
    IF ~loaded
    THEN IF text \in DOMAIN FallbackOfPosts THEN FallbackOfPosts[text]
         ELSE fallback_sentiment(text)
    ELSE IF raised THEN <<0, 33, 33>>
    ELSE <<probs[3] - probs[1], probs[3], probs[1]>>

(* ------------------------------------------------- the raw_posts stream *)

NoPayload ==
    [id |-> "", sub |-> "", t |-> 0, tickers |-> <<>>, title |-> <<>>, selftext |-> <<>>]

\* a stream entry: the value of its "json" field, and whether json.loads accepts
\* it and finds the keys consume_batch reads
Entry(payload) == [wellformed |-> TRUE, payload |-> payload]

MalformedEntry == [wellformed |-> FALSE, payload |-> NoPayload]

\* xadd("raw_posts", {"json": ...}): the new entry gets the next id
append_entry(entry) ==
    /\ stream' = Append(stream, entry)
    /\ deliveries' = Append(deliveries, 0)

\* an append while the stream has room
xadd(entry) ==
    /\ Len(stream) < MaxStream
    /\ append_entry(entry)

\* the payload main() builds for a post whose tickers are iterated in this order
broad_payload(post, order) ==
    [id |-> post.id, sub |-> post.subreddit, t |-> post.created_utc,
     tickers |-> Join(order), title |-> post.title, selftext |-> post.selftext]

\* the payload collect_ticker_data builds for a post found for ticker
targeted_payload(post, ticker) ==
    [id |-> post.id, sub |-> post.subreddit, t |-> post.created_utc,
     tickers |-> <<ticker>>, title |-> post.title, selftext |-> post.selftext]

\* main(): one post of a subreddit's new listing is appended when it has tickers
broad_xadd ==
    \E post \in Posts :
        /\ Extracted[post] # {}
        /\ \E order \in Orders(Extracted[post]) : xadd(Entry(broad_payload(post, order)))
        /\ UNCHANGED <<group_exists, last_delivered, pel, acked, store, model_loaded,
                       run, queue_errors, now, waiter, targeted, broad,
                       search, extraction>>

\* collect_ticker_data(): one post collect_posts_for_ticker kept is appended
targeted_xadd ==
    \E ticker \in Tickers, post \in Posts :
        /\ ticker \in Extracted[post]
        /\ xadd(Entry(targeted_payload(post, ticker)))
        /\ UNCHANGED <<group_exists, last_delivered, pel, acked, store, model_loaded,
                       run, queue_errors, now, waiter, targeted, broad,
                       search, extraction>>

\* an entry whose json field consume_batch cannot decode, appended by another writer
external_xadd ==
    /\ xadd(MalformedEntry)
    /\ UNCHANGED <<group_exists, last_delivered, pel, acked, store, model_loaded,
                   run, queue_errors, now, waiter, targeted, broad,
                   search, extraction>>

(* ------------------------------------------------ the parts that are not running *)

NoWaiter ==
    [pc |-> "none", ticker |-> "", max_wait |-> 0, start_time |-> 0,
     db_ok |-> TRUE, result |-> "", log |-> ""]

NoTargeted ==
    [pc |-> "none", ticker |-> "", limit |-> 0, from_api |-> FALSE, sub |-> 0,
     query |-> 0, results |-> <<>>, raises |-> FALSE, posts |-> <<>>, i |-> 0,
     enqueued |-> <<>>, error |-> "none"]

NoBroad ==
    [pc |-> "none", sub |-> 0, listing |-> <<>>, raises |-> FALSE, pass |-> 0,
     enqueued |-> <<>>, visited |-> {}, failed |-> {}]

NoSearch ==
    [pc |-> "none", ticker |-> "", fresh |-> FALSE, db_ok |-> TRUE,
     has_recent |-> FALSE, collected |-> FALSE, raised |-> {}, status |-> 0]

NoExtraction ==
    [pc |-> "none", words |-> <<>>, text |-> <<>>, tickers |-> {}, history |-> <<>>]

\* no request and no call of extract_tickers in progress
NoCalls ==
    /\ search = NoSearch
    /\ extraction = NoExtraction

(* ------------------------------------------------ tasks.py: consume_batch *)

IdleRun ==
    [pc |-> "idle", msg_id |-> 0, payload |-> NoPayload, score |-> <<0, 0, 0>>,
     todo |-> <<>>, calls |-> 0, attempts |-> <<>>, outcome |-> "none",
     classified |-> "none", backlog |-> 0]

\* the run of slot r takes a step that changes these fields
Step(r, changes) == run' = [run EXCEPT ![r] = changes @@ run[r]]

\* an unhandled exception reaches the handler at the top level: the run ends
Fault(r, where) == Step(r, [pc |-> "idle", outcome |-> where])

\* the beat schedule starts a run
consume_start(r) ==
    /\ run[r].pc = "idle"
    /\ run' = [run EXCEPT ![r] = [IdleRun EXCEPT !.pc = "group"]]
    /\ UNCHANGED <<stream, group_exists, last_delivered, pel, acked, deliveries,
                   store, model_loaded, queue_errors, now, waiter, targeted, broad,
                   search, extraction>>

\* variant: the group is created at the end of the stream (id="$")
group_start_at_end == Len(stream)

\* xgroup_create(stream, group, id="0", mkstream=True): where a new group starts
group_start_id == 0

\* variant: the ResponseError of an existing group is not caught apart and ends
\* the run in the top-level handler
group_already_exists_is_fatal(r) == Fault(r, "fault_group")

\* except redis.exceptions.ResponseError: the group exists, which is logged, and
\* the run goes on to its read
group_already_exists(r) == Step(r, [pc |-> "read"])

\* the group is created (backlog: the entries on the stream at that moment), or
\* exists already (ResponseError, swallowed), or the call fails with another
\* error
xgroup_create(r) ==
    /\ run[r].pc = "group"
    /\ \/ /\ ~group_exists
          /\ group_exists' = TRUE
          /\ last_delivered' = group_start_id
          /\ Step(r, [pc |-> "read", backlog |-> Len(stream)])
          /\ UNCHANGED queue_errors
       \/ /\ group_exists
          /\ group_already_exists(r)
          /\ UNCHANGED <<group_exists, last_delivered, queue_errors>>
       \/ /\ queue_errors < MaxQueueErrors
          /\ queue_errors' = queue_errors + 1
          /\ Fault(r, "fault_group")
          /\ UNCHANGED <<group_exists, last_delivered>>
    /\ UNCHANGED <<stream, pel, acked, deliveries, store, model_loaded,
                   now, waiter, targeted, broad, search, extraction>>

\* variant: the read also returns the consumer's pending entries
readable_with_pending ==
    {i \in 1..Len(stream) : i > last_delivered \/ i \in pel}

\* xreadgroup(group, "worker-1", {stream: ">"}, count=1): the ids it can return,
\* the entries never delivered to the group
readable == {i \in 1..Len(stream) : i > last_delivered}

\* variant: the read returns the newest of the entries
newest_entry(ids) == CHOOSE i \in ids : \A j \in ids : i >= j

\* count=1 with ">": the entry with the lowest id is returned
next_entry(ids) == CHOOSE i \in ids : \A j \in ids : i <= j

\* variant: the response is indexed without the check for an empty one, and
\* the IndexError is caught by the handler of the run
no_entry_unchecked(r) == Fault(r, "fault_read")

\* if not resp: return
no_entry(r) == Step(r, [pc |-> "idle", outcome |-> "empty"])

\* at most one entry is returned, the oldest
xreadgroup(r) ==
    /\ run[r].pc = "read"
    /\ \/ /\ readable # {}
          /\ LET msg_id == next_entry(readable)
             IN  /\ last_delivered' = IF msg_id > last_delivered THEN msg_id
                                      ELSE last_delivered
                 /\ pel' = pel \cup {msg_id}
                 /\ deliveries' = [deliveries EXCEPT ![msg_id] = @ + 1]
                 /\ Step(r, [pc |-> "score", msg_id |-> msg_id])
          /\ UNCHANGED queue_errors
       \/ /\ readable = {}
          /\ no_entry(r)
          /\ UNCHANGED <<last_delivered, pel, deliveries, queue_errors>>
       \/ /\ queue_errors < MaxQueueErrors
          /\ queue_errors' = queue_errors + 1
          /\ Fault(r, "fault_read")
          /\ UNCHANGED <<last_delivered, pel, deliveries>>
    /\ UNCHANGED <<stream, group_exists, acked, store, model_loaded,
                   now, waiter, targeted, broad, search, extraction>>

\* f"{payload['title']}  {payload['selftext']}"
scoring_text(payload) == payload.title \o <<" ", " ">> \o payload.selftext

\* the branch of classify that gave the triple: the keyword count when no
\* model could be loaded, the handler when inference raised, the model otherwise
classified_by(loaded, raised) ==
    IF ~loaded THEN "keywords" ELSE IF raised THEN "handler" ELSE "model"

\* json.loads, the scoring text, classify and the split of the tickers field
score_entry(r) ==
    /\ run[r].pc = "score"
    /\ LET entry == stream[run[r].msg_id]
       IN  \/ /\ ~entry.wellformed
              /\ Fault(r, "fault_decode")
              /\ UNCHANGED model_loaded
           \/ /\ entry.wellformed
              /\ \E loaded \in BOOLEAN, raised \in BOOLEAN, probs \in FinbertOutputs :
                    /\ model_loaded => loaded
                    /\ ~loaded => ~raised
                    /\ raised => probs = CHOOSE q \in FinbertOutputs : TRUE
                    /\ ~loaded => probs = CHOOSE q \in FinbertOutputs : TRUE
                    /\ model_loaded' = loaded
                    /\ Step(r, [pc |-> "insert", payload |-> entry.payload,
                                calls |-> run[r].calls + 1,
                                score |-> classify(scoring_text(entry.payload),
                                                   loaded, raised, probs),
                                todo |-> Split(entry.payload.tickers),
                                classified |-> classified_by(loaded, raised)])
    /\ UNCHANGED <<stream, group_exists, last_delivered, pel, acked, deliveries,
                   store, queue_errors, now, waiter, targeted, broad,
                   search, extraction>>

\* the row one INSERT writes
row(r, ticker) ==
    [reddit_id |-> run[r].payload.id, ticker |-> ticker, model |-> "finbert",
     score |-> run[r].score[1], pos_prob |-> run[r].score[2],
     neg_prob |-> run[r].score[3], created_ts |-> run[r].payload.t,
     scored_ts |-> now, msg_id |-> run[r].msg_id]

\* variant: the INSERT writes nothing when the post already has a row for the
\* ticker (ON CONFLICT DO NOTHING)
inserted_once(rows, new_row) ==
    IF \E i \in DOMAIN rows : /\ rows[i].reddit_id = new_row.reddit_id
                              /\ rows[i].ticker = new_row.ticker
    THEN rows
    ELSE Append(rows, new_row)

\* INSERT INTO sentiment_events ... VALUES ...: the table has one more row
inserted(rows, new_row) == Append(rows, new_row)

\* variant: the INSERT's exception is not caught in the loop
insert_failed_aborts(r) == Fault(r, "fault_insert")

\* variant: a failed INSERT ends the loop over the tickers
insert_failed_breaks(r) ==
    Step(r, [pc |-> "ack", todo |-> <<>>,
             attempts |-> Append(run[r].attempts,
                                 [ticker |-> Head(run[r].todo), ok |-> FALSE])])

\* a failed INSERT is logged and the loop goes on
insert_failed(r) ==
    Step(r, [pc |-> IF Len(run[r].todo) = 1 THEN "ack" ELSE "insert",
             todo |-> Tail(run[r].todo),
             attempts |-> Append(run[r].attempts,
                                 [ticker |-> Head(run[r].todo), ok |-> FALSE])])

\* one pass of the loop over the tickers: the INSERT succeeds or raises
insert(r) ==
    /\ run[r].pc = "insert"
    /\ \/ /\ store' = inserted(store, row(r, Head(run[r].todo)))
          /\ Step(r, [pc |-> IF Len(run[r].todo) = 1 THEN "ack" ELSE "insert",
                      todo |-> Tail(run[r].todo),
                      attempts |-> Append(run[r].attempts,
                                          [ticker |-> Head(run[r].todo), ok |-> TRUE])])
       \/ /\ insert_failed(r)
          /\ UNCHANGED store
    /\ UNCHANGED <<stream, group_exists, last_delivered, pel, acked, deliveries,
                   model_loaded, queue_errors, now, waiter, targeted, broad,
                   search, extraction>>

\* xack(stream, group, msg_id), or a transport error
xack(r) ==
    /\ run[r].pc = "ack"
    /\ \/ /\ pel' = pel \ {run[r].msg_id}
          /\ acked' = acked \cup {run[r].msg_id}
          /\ Step(r, [pc |-> "idle", outcome |-> "acked"])
          /\ UNCHANGED queue_errors
       \/ /\ queue_errors < MaxQueueErrors
          /\ queue_errors' = queue_errors + 1
          /\ Fault(r, "fault_ack")
          /\ UNCHANGED <<pel, acked>>
    /\ UNCHANGED <<stream, group_exists, last_delivered, deliveries, store,
                   model_loaded, now, waiter, targeted, broad,
                   search, extraction>>

(* ------------------------------------------------ the pipeline specification *)

\* nothing appended, no group, no row, every run idle
PipelineInit ==
    /\ stream = <<>>
    /\ group_exists = FALSE
    /\ last_delivered = 0
    /\ pel = {}
    /\ acked = {}
    /\ deliveries = <<>>
    /\ store = <<>>
    /\ model_loaded = FALSE
    /\ run = [r \in Slots |-> IdleRun]
    /\ queue_errors = 0

Init ==
    /\ PipelineInit
    /\ now = 0
    /\ waiter = NoWaiter
    /\ targeted = NoTargeted
    /\ broad = NoBroad
    /\ NoCalls

consume_batch(r) ==
    \/ consume_start(r)
    \/ xgroup_create(r)
    \/ xreadgroup(r)
    \/ score_entry(r)
    \/ insert(r)
    \/ xack(r)

Next ==
    \/ broad_xadd
    \/ targeted_xadd
    \/ external_xadd
    \/ \E r \in SerialSlots : consume_batch(r)

\* producers and one consumer instance whose runs do not overlap
Spec == Init /\ [][Next]_vars

\* the beat schedule keeps starting runs and a started run keeps executing
FairSpec == Spec /\ \A r \in SerialSlots : WF_vars(consume_batch(r))

\* the beat schedule starts a run every 2.0 s and a read blocks up to 5000 ms:
\* a run can start while an earlier one is still executing, and every run
\* reads as consumer "worker-1" of the one group
OverlapNext ==
    \/ broad_xadd
    \/ targeted_xadd
    \/ external_xadd
    \/ \E r \in Slots : consume_batch(r)

\* producers and consumer runs that overlap in time
SpecOverlap == Init /\ [][OverlapNext]_vars

(* ------------------------------------------------ api.py: the completion waiter *)

\* timedelta keeps days and seconds apart: .seconds is the part below one day
SecondsPerDay == 86400

\* has_recent_data(ticker, hours=0.05): the window, in seconds
RecentWindow == 180

\* seconds the clock may run past the first whole day of waiting
MaxOverrun == 2

\* rows the consumer writes while a call waits, at most
MaxWaitRows == 1

\* the max_wait values a call is made with; collect_ticker_data passes 45
MaxWaits == {0, 2, 45, SecondsPerDay}

\* (datetime.now() - start_time).seconds
elapsed_seconds == (now - waiter.start_time) % SecondsPerDay

\* the SELECT COUNT(*) of has_recent_data: rows of the ticker scored in the window
recent_count(ticker, window) ==
    Cardinality({i \in DOMAIN store :
                    /\ store[i].ticker = ticker
                    /\ store[i].scored_ts >= now - window})

\* variant: only rows of the posts the call has appended are counted
has_recent_data_of_triggered(ticker, window, db_ok) ==
    IF db_ok
    THEN \E i \in DOMAIN store :
            /\ store[i].ticker = ticker
            /\ store[i].scored_ts >= now - window
            /\ \E k \in DOMAIN targeted.enqueued :
                  store[i].reddit_id = targeted.enqueued[k]
    ELSE FALSE

\* has_recent_data(ticker, hours): FALSE as well when the query raises
has_recent_data(ticker, window, db_ok) ==
    IF db_ok THEN recent_count(ticker, window) > 0 ELSE FALSE

\* what wait_for_processing returns when it finds a fresh row (a bare return)
return_when_found == "None"

\* what wait_for_processing returns after the loop (it falls off the end)
return_on_timeout == "None"

\* the loop condition: (datetime.now() - start_time).seconds < max_wait
wait_check ==
    /\ waiter.pc = "check"
    /\ IF elapsed_seconds < waiter.max_wait
       THEN waiter' = [waiter EXCEPT !.pc = "poll"]
       ELSE waiter' = [waiter EXCEPT !.pc = "done", !.log = "timeout",
                                     !.result = return_on_timeout]
    /\ UNCHANGED <<pipeline_vars, now, targeted, broad, search, extraction>>

\* the loop body: return when has_recent_data finds a row, else go to sleep
wait_poll ==
    /\ waiter.pc = "poll"
    /\ IF has_recent_data(waiter.ticker, RecentWindow, waiter.db_ok)
       THEN waiter' = [waiter EXCEPT !.pc = "done", !.log = "completed",
                                     !.result = return_when_found]
       ELSE waiter' = [waiter EXCEPT !.pc = "sleep"]
    /\ UNCHANGED <<pipeline_vars, now, targeted, broad, search, extraction>>

\* asyncio.sleep(1)
wait_sleep ==
    /\ waiter.pc = "sleep"
    /\ now - waiter.start_time < SecondsPerDay + MaxOverrun
    /\ now' = now + 1
    /\ waiter' = [waiter EXCEPT !.pc = "check"]
    /\ UNCHANGED <<pipeline_vars, targeted, broad, search, extraction>>

\* numbers of loop iterations taken in one step
Strides == {60, 3600}

\* n iterations of the loop in a row, from one sleep to the nth after it, in
\* which nothing is found: the loop condition holds at each of the n checks and
\* no row of the ticker is in the window at the first poll, hence at none
wait_cycles ==
    /\ waiter.pc = "sleep"
    /\ \E n \in Strides :
          /\ now + n - waiter.start_time <= SecondsPerDay + MaxOverrun
          /\ \/ waiter.max_wait >= SecondsPerDay
             \/ elapsed_seconds + n < waiter.max_wait
          /\ ~(waiter.db_ok /\ \E i \in DOMAIN store :
                  /\ store[i].ticker = waiter.ticker
                  /\ store[i].scored_ts >= now + 1 - RecentWindow)
          /\ now' = now + n
    /\ UNCHANGED <<pipeline_vars, waiter, targeted, broad, search, extraction>>

\* a row of sentiment_events as the waiter's query sees it
scored_row(ticker, reddit_id, ts) ==
    [reddit_id |-> reddit_id, ticker |-> ticker, model |-> "finbert", score |-> 70,
     pos_prob |-> 80, neg_prob |-> 10, created_ts |-> 0, scored_ts |-> ts,
     msg_id |-> 0]

\* the consumer inserts a row for the awaited ticker while the call waits and
\* the database can be reached
consumer_insert ==
    /\ waiter.pc \in {"check", "poll", "sleep"}
    /\ waiter.db_ok
    /\ Cardinality({i \in DOMAIN store : store[i].scored_ts >= waiter.start_time})
          < MaxWaitRows
    /\ store' = Append(store, scored_row(waiter.ticker, "p1", now))
    /\ UNCHANGED <<stream, group_exists, last_delivered, pel, acked, deliveries,
                   model_loaded, run, queue_errors, now, waiter, targeted, broad,
                   search, extraction>>

\* the rows the store can hold when a call starts at time 1000: a stale row of
\* the ticker and a fresh row of another ticker, or a fresh row of the ticker
StoresAtStart(ticker) ==
    { << scored_row(ticker, "p1", 1000 - RecentWindow - 1),
         scored_row(CHOOSE t \in Tickers : t # ticker, "p2", 999) >>,
      << scored_row(ticker, "p1", 1000 - RecentWindow) >> }

\* a call wait_for_processing(ticker, max_wait) has just taken start_time; the
\* database is reachable for the whole call, or every query of the call raises
WaitInit ==
    /\ stream = <<>>
    /\ group_exists = FALSE
    /\ last_delivered = 0
    /\ pel = {}
    /\ acked = {}
    /\ deliveries = <<>>
    /\ model_loaded = FALSE
    /\ run = [r \in Slots |-> IdleRun]
    /\ queue_errors = 0
    /\ now = 1000
    /\ targeted = NoTargeted
    /\ broad = NoBroad
    /\ NoCalls
    /\ \E ticker \in Tickers, max_wait \in MaxWaits, db_ok \in BOOLEAN :
          /\ store \in StoresAtStart(ticker)
          /\ waiter = [pc |-> "check", ticker |-> ticker, max_wait |-> max_wait,
                       start_time |-> 1000, db_ok |-> db_ok, result |-> "",
                       log |-> ""]

WaitNext ==
    \/ wait_check
    \/ wait_poll
    \/ wait_sleep
    \/ wait_cycles
    \/ consumer_insert

\* one call of wait_for_processing, with the consumer writing rows beside it
SpecWait == WaitInit /\ [][WaitNext]_vars

(* ------------------------------------------------ properties of the waiter *)

\* C7: wait_for_processing stops polling once max_wait seconds have elapsed:
\* the loop body is never entered at or after max_wait seconds of waiting.
C7_StopsAfterMaxWait ==
    waiter.pc \in {"poll", "sleep"} => now - waiter.start_time < waiter.max_wait

\* C8: the result tells the two outcomes apart: true when a poll found a fresh
\* row of the ticker, false when max_wait elapsed without one.
C8_ResultTellsOutcome ==
    waiter.pc = "done" =>
        /\ waiter.log = "completed" => waiter.result = "True"
        /\ waiter.log = "timeout" => waiter.result = "False"

(* ------------------------------------------------ collector.py, api.py: producers *)

\* the subreddits searched, in the order of the list (two of its fifteen)
Subs == <<"wallstreetbets", "stocks">>

\* the queries collect_posts_for_ticker searches a subreddit with
search_queries(ticker) ==
    << "$" \o ticker, ticker \o " stock", ticker \o " earnings", ticker >>

\* posts one search or one listing yields, at most
MaxResults == 2

\* the limits collect_posts_for_ticker is called with directly, 1..MaxLimit
MaxLimit == 2

\* limit: int = 100, the limit collect_ticker_data calls it with
DEFAULT_LIMIT == 100

\* passes of the broad producer
MaxPasses == 2

\* asyncio.sleep(300) between two passes
PASS_PERIOD == 300

\* what iterating subreddit.search(...) or subreddit.new(...) can yield: up to
\* MaxResults different posts of the subreddit, in any order
Listings(sub) ==
    LET own == {p \in Posts : p.subreddit = sub}
    IN  UNION { {o \in [1..n -> own] : \A i, j \in 1..n : i # j => o[i] # o[j]} :
                n \in 0..MaxResults }

\* the targeted producer takes a step that changes these fields
TStep(changes) == targeted' = changes @@ targeted

\* variant: a search result is kept without verifying the ticker
mentions_unverified(post, ticker) == TRUE

\* the ticker is verified: ticker in extract_tickers(f"{title} {selftext}")
mentions(post, ticker) == ticker \in Extracted[post]

\* for sub in subs: the subreddit is opened, or opening it raises and the loop
\* goes to the next one; after the last one the function returns
collect_enter_sub ==
    /\ targeted.pc = "sub"
    /\ IF targeted.sub > Len(Subs)
       THEN TStep([pc |-> "return"])
       ELSE \/ TStep([pc |-> "query", query |-> 1])
            \/ TStep([sub |-> targeted.sub + 1])
    /\ UNCHANGED <<pipeline_vars, now, waiter, broad, search, extraction>>

\* the limit is reached: checked after a post is appended and after the queries
\* of a subreddit
limit_reached(posts, limit) == Len(posts) >= limit

\* for query in search_queries: the search is started; after the last query the
\* limit is checked and the loop over the subreddits left or continued
collect_start_query ==
    /\ targeted.pc = "query"
    /\ IF targeted.query > Len(search_queries(targeted.ticker))
       THEN IF limit_reached(targeted.posts, targeted.limit)
            THEN TStep([pc |-> "return"])
            ELSE TStep([pc |-> "sub", sub |-> targeted.sub + 1])
       ELSE \E results \in Listings(Subs[targeted.sub]), raises \in BOOLEAN :
               TStep([pc |-> "post", results |-> results, raises |-> raises])
    /\ UNCHANGED <<pipeline_vars, now, waiter, broad, search, extraction>>

\* async for post in subreddit.search(...): a post that mentions the ticker is
\* appended, and the loop over the posts is left when the limit is reached; the
\* search ends, or raises, after its last post: the next query follows
collect_next_post ==
    /\ targeted.pc = "post"
    /\ IF targeted.results = <<>>
       THEN TStep([pc |-> "query", query |-> targeted.query + 1, raises |-> FALSE])
       ELSE LET post == Head(targeted.results)
                kept == IF mentions(post, targeted.ticker)
                        THEN Append(targeted.posts, post)
                        ELSE targeted.posts
            IN  IF mentions(post, targeted.ticker)
                   /\ limit_reached(kept, targeted.limit)
                THEN TStep([pc |-> "query", query |-> targeted.query + 1,
                            results |-> <<>>, raises |-> FALSE, posts |-> kept])
                ELSE TStep([results |-> Tail(targeted.results), posts |-> kept])
    /\ UNCHANGED <<pipeline_vars, now, waiter, broad, search, extraction>>

\* return posts: to a direct caller, or to collect_ticker_data, which appends
\* the posts when there are any
collect_return ==
    /\ targeted.pc = "return"
    /\ IF targeted.from_api /\ targeted.posts # <<>>
       THEN TStep([pc |-> "xadd", i |-> 1])
       ELSE TStep([pc |-> "done"])
    /\ UNCHANGED <<pipeline_vars, now, waiter, broad, search, extraction>>

\* variant: the waiter is called inside the loop, after the first append
after_xadd_waits_in_loop(i, posts) == "wait"

\* the loop over the posts goes on, and the waiter is called after it
after_xadd(i, posts) == IF i = Len(posts) THEN "wait" ELSE "xadd"

\* for post in posts: rds.xadd("raw_posts", ...); after the last one
\* wait_for_processing(ticker, max_wait=45) is called; an xadd that raises is
\* an exception inside the try of collect_ticker_data
api_xadd_post ==
    /\ targeted.pc = "xadd"
    /\ LET post == targeted.posts[targeted.i]
       IN  \/ /\ append_entry(Entry(targeted_payload(post, targeted.ticker)))
              /\ TStep([pc |-> after_xadd(targeted.i, targeted.posts),
                        i |-> targeted.i + 1,
                        enqueued |-> Append(targeted.enqueued, post.id)])
           \/ /\ TStep([pc |-> "except", error |-> "xadd"])
              /\ UNCHANGED <<stream, deliveries>>
    /\ UNCHANGED <<group_exists, last_delivered, pel, acked, store, model_loaded,
                   run, queue_errors, now, waiter, broad, search, extraction>>

\* variant: collect_ticker_data has no handler and the exception leaves it
unhandled_by_collect == "raised"

\* except Exception as e: logging.error(...): collect_ticker_data returns
handled_by_collect == "done"

\* an exception raised inside the try of collect_ticker_data reaches its handler
api_collect_except ==
    /\ targeted.pc = "except"
    /\ TStep([pc |-> handled_by_collect])
    /\ UNCHANGED <<pipeline_vars, now, waiter, broad, search, extraction>>

\* the broad producer takes a step that changes these fields
BStep(changes) == broad' = changes @@ broad

\* variant: a failure of one subreddit ends the loop over the subreddits
except_aborts_pass(sub) == Len(Subs) + 1

\* except Exception: the failure is printed and the loop over the subreddits
\* goes on with the subreddit after sub
except_continue(sub) == sub + 1

\* variant: a post is appended whether it has tickers or not
has_tickers_unchecked(tickers) == TRUE

\* if not tickers: continue
has_tickers(tickers) == tickers # {}

\* for sub in subs: the listing of new posts is fetched, or the subreddit cannot
\* be opened and the loop goes to the next one; after the last one the pass ends
main_enter_sub ==
    /\ broad.pc = "sub"
    /\ IF broad.sub > Len(Subs)
       THEN BStep([pc |-> "sleep"])
       ELSE \/ \E listing \in Listings(Subs[broad.sub]), raises \in BOOLEAN :
                 BStep([pc |-> "post", listing |-> listing, raises |-> raises,
                        visited |-> broad.visited \cup {broad.sub}])
            \/ BStep([sub |-> except_continue(broad.sub),
                      visited |-> broad.visited \cup {broad.sub},
                      failed |-> broad.failed \cup {broad.sub}])
    /\ UNCHANGED <<pipeline_vars, now, waiter, targeted, search, extraction>>

\* async for post in subreddit.new(limit=75): a post with tickers is appended to
\* the stream; the listing ends, or raises after its last post, and an xadd
\* that raises is caught the same way: the next subreddit follows
main_post ==
    /\ broad.pc = "post"
    /\ IF broad.listing = <<>>
       THEN /\ IF broad.raises
               THEN BStep([pc |-> "sub", sub |-> except_continue(broad.sub),
                           raises |-> FALSE,
                           failed |-> broad.failed \cup {broad.sub}])
               ELSE BStep([pc |-> "sub", sub |-> broad.sub + 1])
            /\ UNCHANGED <<stream, deliveries>>
       ELSE LET post == Head(broad.listing)
                tickers == Extracted[post]
            IN  IF ~has_tickers(tickers)
                THEN /\ BStep([listing |-> Tail(broad.listing)])
                     /\ UNCHANGED <<stream, deliveries>>
                ELSE \/ /\ \E order \in Orders(tickers) :
                              append_entry(Entry(broad_payload(post, order)))
                        /\ BStep([listing |-> Tail(broad.listing),
                                  enqueued |-> Append(broad.enqueued, post.id)])
                     \/ /\ BStep([pc |-> "sub", sub |-> except_continue(broad.sub),
                                  listing |-> <<>>, raises |-> FALSE,
                                  failed |-> broad.failed \cup {broad.sub}])
                        /\ UNCHANGED <<stream, deliveries>>
    /\ UNCHANGED <<group_exists, last_delivered, pel, acked, store, model_loaded,
                   run, queue_errors, now, waiter, targeted, search, extraction>>

\* await asyncio.sleep(300), then the next pass of while True
main_sleep ==
    /\ broad.pc = "sleep"
    /\ broad.pass < MaxPasses
    /\ now' = now + PASS_PERIOD
    /\ BStep([pc |-> "sub", sub |-> 1, pass |-> broad.pass + 1, enqueued |-> <<>>,
              visited |-> {}, failed |-> {}])
    /\ UNCHANGED <<pipeline_vars, waiter, targeted, search, extraction>>

\* collect_ticker_data(ticker) has called collect_posts_for_ticker(ticker), or
\* collect_posts_for_ticker(ticker, limit) is called directly
CollectInit ==
    /\ PipelineInit
    /\ now = 0
    /\ waiter = NoWaiter
    /\ broad = NoBroad
    /\ NoCalls
    /\ \E ticker \in Tickers, from_api \in BOOLEAN, limit \in 1..MaxLimit :
          targeted = [NoTargeted EXCEPT
                         !.pc = "sub", !.ticker = ticker, !.from_api = from_api,
                         !.limit = IF from_api THEN DEFAULT_LIMIT ELSE limit,
                         !.sub = 1]

collect_posts_for_ticker ==
    \/ collect_enter_sub
    \/ collect_start_query
    \/ collect_next_post
    \/ collect_return

CollectNext ==
    \/ collect_posts_for_ticker
    \/ api_xadd_post
    \/ api_collect_except

\* one call of the targeted producer
SpecCollect == CollectInit /\ [][CollectNext]_vars

\* main() starts its first pass
MainInit ==
    /\ PipelineInit
    /\ now = 0
    /\ waiter = NoWaiter
    /\ targeted = NoTargeted
    /\ NoCalls
    /\ broad = [NoBroad EXCEPT !.pc = "sub", !.sub = 1, !.pass = 1]

main ==
    \/ main_enter_sub
    \/ main_post
    \/ main_sleep

\* the passes of the broad producer
SpecMain == MainInit /\ [][main]_vars

\* a call of the targeted producer, or the passes of the broad producer
ProducersInit == CollectInit \/ MainInit

ProducersNext ==
    \/ collect_posts_for_ticker
    \/ api_xadd_post
    \/ api_collect_except
    \/ main

SpecProducers == ProducersInit /\ [][ProducersNext]_vars

(* ------------------------------------------------ api.py: search_ticker *)

\* has_recent_data(ticker): hours=1, in seconds
SearchWindow == 3600

\* await wait_for_processing(ticker, max_wait=45)
COLLECT_MAX_WAIT == 45

\* a request takes a step that changes these fields
SStep(changes) == search' = changes @@ search

\* has_recent = await has_recent_data(ticker); collect_ticker_data(ticker) is
\* called when fresh or not has_recent, else the cached data is used
search_check ==
    /\ search.pc = "check"
    /\ LET has_recent == has_recent_data(search.ticker, SearchWindow, search.db_ok)
       IN  IF search.fresh \/ ~has_recent
           THEN /\ SStep([pc |-> "collect", has_recent |-> has_recent])
                /\ targeted' = [NoTargeted EXCEPT
                                   !.pc = "call", !.ticker = search.ticker,
                                   !.from_api = TRUE, !.limit = DEFAULT_LIMIT]
           ELSE /\ SStep([pc |-> "queries", has_recent |-> has_recent])
                /\ UNCHANGED targeted
    /\ UNCHANGED <<pipeline_vars, now, waiter, broad, extraction>>

\* posts = await collect_posts_for_ticker(ticker): the import and the Reddit
\* client succeed and the loop over the subreddits starts, or one of them raises
collect_call ==
    /\ targeted.pc = "call"
    /\ \/ TStep([pc |-> "sub", sub |-> 1])
       \/ TStep([pc |-> "except", error |-> "producer"])
    /\ UNCHANGED <<pipeline_vars, now, waiter, broad, search, extraction>>

\* await wait_for_processing(ticker, max_wait=45): start_time is taken
api_wait_start ==
    /\ targeted.pc = "wait"
    /\ TStep([pc |-> "waiting"])
    /\ waiter' = [pc |-> "check", ticker |-> targeted.ticker,
                  max_wait |-> COLLECT_MAX_WAIT, start_time |-> now,
                  db_ok |-> search.db_ok, result |-> "", log |-> ""]
    /\ UNCHANGED <<pipeline_vars, now, broad, search, extraction>>

\* wait_for_processing has returned: collect_ticker_data logs and returns
api_wait_done ==
    /\ targeted.pc = "waiting"
    /\ waiter.pc = "done"
    /\ TStep([pc |-> "done"])
    /\ UNCHANGED <<pipeline_vars, now, waiter, broad, search, extraction>>

\* collect_ticker_data has returned, or has raised into the handler of
\* search_ticker, which prints the error: the queries follow
search_collected ==
    /\ search.pc = "collect"
    /\ targeted.pc \in {"done", "raised"}
    /\ SStep([pc |-> "queries", collected |-> TRUE,
              raised |-> IF targeted.pc = "raised" THEN {"collect_ticker_data"}
                         ELSE {}])
    /\ UNCHANGED <<pipeline_vars, now, waiter, targeted, broad, extraction>>

\* the three queries and the response, or HTTPException(status_code=500) when
\* a query raises
search_respond ==
    /\ search.pc = "queries"
    /\ SStep([pc |-> "responded", status |-> IF search.db_ok THEN 200 ELSE 500])
    /\ UNCHANGED <<pipeline_vars, now, waiter, targeted, broad, extraction>>

\* the rows the store can hold when a request arrives at time 1000: none, a
\* row of the ticker scored within the last hour, or a row of the ticker, of an
\* older post, scored a second ago
StoresAtSearch(ticker) ==
    { <<>>, << scored_row(ticker, "p1", 1000 - SearchWindow) >>,
      << scored_row(ticker, "p0", 1000 - 1) >> }

\* GET /search/{ticker} has upper-cased the ticker; the database is reachable
\* for the whole request, or every query of the request raises
SearchInit ==
    /\ stream = <<>>
    /\ group_exists = FALSE
    /\ last_delivered = 0
    /\ pel = {}
    /\ acked = {}
    /\ deliveries = <<>>
    /\ model_loaded = FALSE
    /\ run = [r \in Slots |-> IdleRun]
    /\ queue_errors = 0
    /\ now = 1000
    /\ waiter = NoWaiter
    /\ targeted = NoTargeted
    /\ broad = NoBroad
    /\ extraction = NoExtraction
    /\ \E ticker \in Tickers, fresh \in BOOLEAN, db_ok \in BOOLEAN :
          /\ store \in StoresAtSearch(ticker)
          /\ search = [NoSearch EXCEPT !.pc = "check", !.ticker = ticker,
                                       !.fresh = fresh, !.db_ok = db_ok]

collect_ticker_data ==
    \/ collect_call
    \/ collect_posts_for_ticker
    \/ api_xadd_post
    \/ api_wait_start
    \/ api_wait_done
    \/ api_collect_except

wait_for_processing ==
    \/ wait_check
    \/ wait_poll
    \/ wait_sleep

search_ticker ==
    \/ search_check
    \/ search_collected
    \/ search_respond

SearchNext ==
    \/ search_ticker
    \/ collect_ticker_data
    \/ wait_for_processing
    \/ consumer_insert

\* one request GET /search/{ticker}, with the consumer writing rows beside it
SpecSearch == SearchInit /\ [][SearchNext]_vars

(* ------------------------------------------------ collector.py: calls of extract_tickers *)

\* the words the texts are made of: marked, bare, denylisted, lowercase, a
\* finance keyword, an action verb, and a marked token that runs into a digit
Words ==
    { <<"$","C","A","S","H">>, <<"C","A","S","H">>, <<"$","g","m","e">>,
      <<"G","M","E">>, <<"t","e","s","l","a">>, <<"s","t","o","c","k">>,
      <<"U","P">>, <<"b","o","u","g","h","t">>, <<"$","G","M","E","1">>,
      <<"t","h","e">> }

\* words a text has at most
MaxWords == 3

\* the words separated by single spaces
RECURSIVE JoinWords(_)
JoinWords(ws) ==
    IF Len(ws) = 0 THEN <<>>
    ELSE IF Len(ws) = 1 THEN ws[1]
    ELSE ws[1] \o <<" ">> \o JoinWords(Tail(ws))

\* extract_tickers(text) is called with a text of 1..MaxWords words
ExtractInit ==
    /\ PipelineInit
    /\ now = 0
    /\ waiter = NoWaiter
    /\ targeted = NoTargeted
    /\ broad = NoBroad
    /\ search = NoSearch
    /\ \E n \in 1..MaxWords :
          \E ws \in [1..n -> Words] :
             extraction = [pc |-> "call", words |-> ws, text |-> JoinWords(ws),
                           tickers |-> {}, history |-> <<>>]

\* variant: the set of an earlier call is kept, as a module-level set would be
tickers_kept_between_calls(previous) == previous

\* tickers = set(): every call starts from an empty set of its own
tickers_at_entry(previous) == {}

\* return tickers; the call and its result are added to the calls made so far
extract_return ==
    /\ extraction.pc = "call"
    /\ LET tickers == tickers_at_entry(extraction.tickers)
                          \cup extract_tickers(extraction.text)
       IN  extraction' = [extraction EXCEPT
                             !.pc = "returned",
                             !.tickers = tickers,
                             !.history = Append(@, [text |-> extraction.text,
                                                    tickers |-> tickers])]
    /\ UNCHANGED <<pipeline_vars, now, waiter, targeted, broad, search>>

ExtractNext == extract_return

\* one call of extract_tickers
SpecExtract == ExtractInit /\ [][ExtractNext]_vars

\* calls of extract_tickers in a row, at most
MaxCalls == 3

\* extract_tickers(text) is called with a text of one word, for the first time
\* or after an earlier call has returned
extract_call ==
    /\ extraction.pc \in {"idle", "returned"}
    /\ Len(extraction.history) < MaxCalls
    /\ \E w \in Words :
          extraction' = [extraction EXCEPT !.pc = "call", !.words = <<w>>,
                                           !.text = w]
    /\ UNCHANGED <<pipeline_vars, now, waiter, targeted, broad, search>>

\* no call of extract_tickers was made yet
CallsInit ==
    /\ PipelineInit
    /\ now = 0
    /\ waiter = NoWaiter
    /\ targeted = NoTargeted
    /\ broad = NoBroad
    /\ search = NoSearch
    /\ extraction = [NoExtraction EXCEPT !.pc = "idle"]

CallsNext ==
    \/ extract_call
    \/ extract_return

\* calls of extract_tickers one after the other, in one process
SpecExtractCalls == CallsInit /\ [][CallsNext]_vars

(* ------------------------------------------------ properties of extract_tickers *)

\* C22: extract_tickers is deterministic and keeps no state: two calls with the
\* same text return the same set, whatever texts were extracted in between.
C22_SameTextSameResult ==
    \A i, j \in DOMAIN extraction.history :
        extraction.history[i].text = extraction.history[j].text =>
            extraction.history[i].tickers = extraction.history[j].tickers

\* the first and the third call had the same text, the second another one, and
\* the first two returned different non-empty sets
C22_Witness ==
    /\ Len(extraction.history) = 3
    /\ extraction.history[1].text = extraction.history[3].text
    /\ extraction.history[1].tickers = {"CASH"}
    /\ extraction.history[2].tickers = {"TESLA"}
    /\ extraction.history[3].tickers = {"CASH"}


\* "$" at position i of the text is followed by a token of 1-5 letters
MarkedTokenAt(text, i) ==
    /\ text[i] = "$"
    /\ LetterRunI(text, i + 1) \in 1..5
    /\ BoundaryAt(text, i + 1 + LetterRunI(text, i + 1))

\* C18: a marked-form ticker is always in the result: for every "$" of the text
\* followed by a token of 1-5 letters, the token (in upper case) is in the
\* result of extract_tickers, also when it is in COMMON_WORDS.
C18_MarkedFormAlwaysIncluded ==
    extraction.pc = "returned" =>
        \A i \in DOMAIN extraction.text :
            MarkedTokenAt(extraction.text, i) =>
                Str(upper(SubSeq(extraction.text, i + 1,
                                 i + LetterRunI(extraction.text, i + 1))))
                    \in extraction.tickers

\* a call has returned a marked denylisted word and a marked lowercase word
C18_Witness ==
    /\ extraction.pc = "returned"
    /\ extraction.words = << <<"$","C","A","S","H">>, <<"$","g","m","e">> >>
    /\ extraction.tickers = {"CASH", "GME"}

\* C19: every element of the result that is in COMMON_WORDS occurs in the text
\* in marked form, and a text made only of bare denylisted words gives the
\* empty set, with or without finance context.
C19_DenylistedOnlyWhenMarked ==
    extraction.pc = "returned" =>
        /\ \A t \in extraction.tickers \cap COMMON_WORDS :
              Contains(upper(extraction.text), "$" \o t)
        /\ (\A k \in DOMAIN extraction.words :
               Str(upper(extraction.words[k])) \in COMMON_WORDS)
              => extraction.tickers = {}

\* a call on bare denylisted words with finance context has returned nothing
C19_Witness ==
    /\ extraction.pc = "returned"
    /\ extraction.words = << <<"C","A","S","H">>, <<"U","P">>, <<"t","h","e">> >>
    /\ financial_context_found(upper(extraction.text))
    /\ extraction.tickers = {}

\* C20: extract_tickers only returns tokens written in upper case in the text:
\* a word in lower or mixed case gives no ticker through the contextual, the
\* action or the standalone strategy (only a marked token may be in the result
\* without being in the text in upper case).
C20_OnlyUppercaseTokens ==
    extraction.pc = "returned" =>
        \A t \in extraction.tickers :
            \/ Contains(extraction.text, t)
            \/ Contains(upper(extraction.text), "$" \o t)

\* the bare tokens of 2-5 letters of the text, in upper case
BareTokens ==
    {Str(upper(w)) : w \in {v \in Range(extraction.words) :
                              /\ Len(v) \in 2..5
                              /\ \A k \in DOMAIN v : v[k] \in AZ \cup az}}

\* the tokens the marked, the contextual or the action pattern captures
CapturedByOtherForms ==
    LET text_upper == upper(extraction.text)
    IN  Range(DollarFindall(text_upper, 1)) \cup Range(ContextFindall(text_upper, 1))
           \cup Range(MentionFindall(text_upper, 1))

\* C21: the standalone rule.  A bare token of 2-5 letters that no other form
\* captures is in the result exactly when the text holds a word of the finance
\* vocabulary and the token is not denylisted, or the text holds none and the
\* token has 4 letters or more, is not denylisted and is not on the
\* supplemental English list.
C21_StandaloneRule ==
    extraction.pc = "returned" =>
        \A t \in BareTokens \ CapturedByOtherForms :
            t \in extraction.tickers <=>
                IF \E word \in FINANCIAL_WORDS : Contains(upper(extraction.text), word)
                THEN t \notin COMMON_WORDS
                ELSE Len(t) >= 4 /\ t \notin COMMON_WORDS /\ t \notin ENGLISH_WORDS

\* a call on a text without finance context has returned its 5-letter token
\* and neither its 3-letter token nor its denylisted one
C21_Witness ==
    /\ extraction.pc = "returned"
    /\ extraction.words = << <<"G","M","E">>, <<"t","e","s","l","a">>, <<"t","h","e">> >>
    /\ ~financial_context_found(upper(extraction.text))
    /\ extraction.tickers = {"TESLA"}

(* ------------------------------------------------ properties of the producers *)

NoDuplicates(ids) == \A i, j \in DOMAIN ids : i # j => ids[i] # ids[j]

\* C9: collect_posts_for_ticker(ticker, limit) never returns more than limit
\* posts.
C9_AtMostLimitPosts ==
    targeted.pc \in {"return", "xadd", "wait", "done"} =>
        Len(targeted.posts) <= targeted.limit

\* C10: within one producer pass no post id is enqueued twice, by the targeted
\* producer or by the broad producer.
C10_OneEventPerPostId ==
    /\ NoDuplicates(targeted.enqueued)
    /\ NoDuplicates(broad.enqueued)

\* C11: every event the targeted path enqueues is a confirmed match, the
\* requested ticker is in extract_tickers(title + " " + selftext) of its post,
\* and its tickers field is the requested ticker alone, whatever else the post
\* mentions.
C11_TargetedEventsAreConfirmedMatches ==
    \A i \in DOMAIN stream :
        LET payload == stream[i].payload
        IN  /\ stream[i].wellformed
            /\ payload.tickers = <<targeted.ticker>>
            /\ Split(payload.tickers) = <<targeted.ticker>>
            /\ \E post \in Posts :
                  /\ post.id = payload.id
                  /\ post.title = payload.title
                  /\ post.selftext = payload.selftext
                  /\ targeted.ticker \in extract_tickers(full_text(post))

\* the targeted path has enqueued a post that mentions two tickers
C11_Witness ==
    \E i \in DOMAIN stream :
        \E post \in Posts :
            /\ post.id = stream[i].payload.id
            /\ Cardinality(Extracted[post]) = 2
            /\ targeted.from_api
            /\ post.id \in Range(targeted.enqueued)

\* C12: every payload the broad producer or the targeted path appends to the
\* stream has a non-empty tickers field, and the broad producer appends an event
\* for a post exactly when extract_tickers of its title and body is non-empty
\* (and the append itself does not raise).
C12_EnqueuedTickersNonEmpty ==
    [][ /\ \A i \in DOMAIN stream' :
              /\ stream'[i].payload.tickers # <<>>
              /\ "" \notin Range(Split(stream'[i].payload.tickers))
        /\ (broad.pc = "post" /\ broad.listing # <<>>) =>
              LET post == Head(broad.listing)
                  appended == /\ Len(stream') = Len(stream) + 1
                              /\ stream'[Len(stream')].payload.id = post.id
                  xadd_raised == broad'.pc = "sub"
              IN  /\ appended <=>
                        (extract_tickers(full_text(post)) # {} /\ ~xadd_raised)
                  /\ ~appended => stream' = stream
      ]_vars

\* the broad producer has appended a post with tickers, and the next post of
\* the listing has none
C12_Witness ==
    /\ broad.pc = "post"
    /\ broad.enqueued = <<"p4">>
    /\ broad.listing # <<>>
    /\ Extracted[Head(broad.listing)] = {}
    /\ Len(stream) = 1
    /\ stream[1].payload.tickers = <<"GME">>

\* C15: in a pass of the broad producer a failure while fetching or processing
\* one subreddit does not end the pass: the pass ends only after every
\* subreddit of the list was visited, and the events appended in the pass are
\* still on the stream.
C15_FailedSubredditDoesNotAbortPass ==
    /\ broad.pc = "sub" => broad.visited = 1..(broad.sub - 1)
    /\ broad.pc = "post" => broad.visited = 1..broad.sub
    /\ broad.pc = "sleep" => broad.visited = DOMAIN Subs
    /\ Len(broad.enqueued) <= Len(stream)
    /\ \A k \in DOMAIN broad.enqueued :
          stream[Len(stream) - Len(broad.enqueued) + k].payload.id = broad.enqueued[k]

\* a pass has ended in which the first subreddit failed after an event of it
\* was appended, and a later subreddit was visited and gave an event
C15_Witness ==
    /\ broad.pc = "sleep"
    /\ 1 \in broad.failed
    /\ Len(broad.enqueued) >= 2
    /\ broad.enqueued[1] = "p4"
    /\ \E k \in DOMAIN stream : stream[k].payload.id = "p4"

(* ------------------------------------------------ properties of search_ticker *)

\* C16: no failure of on-demand collection reaches the caller of search: when
\* the targeted producer, an append to the stream or the waiter's polling of the
\* store fails, collect_ticker_data and wait_for_processing do not raise, the
\* request is never stuck before its response, and a request whose own queries
\* succeed answers with status 200.
C16_CollectionFailuresNotVisible ==
    /\ search.raised = {}
    /\ targeted.pc # "raised"
    /\ targeted.pc = "done" /\ targeted.error # "none" => search.pc # "check"
    /\ search.pc \in {"check", "collect", "queries"} => ENABLED SearchNext
    /\ search.pc = "responded" =>
          /\ search.status = IF search.db_ok THEN 200 ELSE 500
          /\ search.collected => targeted.pc = "done"

\* a request has been answered with status 200 after an append to the stream
\* raised in the middle of the loop of collect_ticker_data
C16_Witness ==
    /\ search.pc = "responded"
    /\ search.status = 200
    /\ targeted.error = "xadd"
    /\ targeted.enqueued # <<>>
    /\ waiter = NoWaiter

\* every post of the list is on the stream, in the order of the list
AllAppended ==
    /\ Len(stream) = Len(targeted.posts)
    /\ \A k \in DOMAIN targeted.posts :
          /\ stream[k].payload.id = targeted.posts[k].id
          /\ targeted.enqueued[k] = targeted.posts[k].id

\* C17 as stated: on every invocation of collect_ticker_data the waiter is run
\* after the producer has finished (here: on every invocation in which nothing
\* raises).
C17_WaiterRunsOnEveryInvocation ==
    (targeted.pc = "done" /\ targeted.error = "none") => waiter.pc = "done"

\* C17, amended: collect_ticker_data runs the waiter only when the producer
\* returned at least one post and every append succeeded, and then only after
\* all posts of the list were appended; when the producer returns no post it
\* returns without running the waiter.
C17_WaiterRunsAfterAllAppends ==
    /\ waiter.pc # "none" =>
          /\ targeted.pc \in {"waiting", "done"}
          /\ targeted.error = "none"
          /\ targeted.posts # <<>>
          /\ AllAppended
    /\ (targeted.pc = "done" /\ targeted.error = "none") =>
          IF targeted.posts = <<>> THEN waiter.pc = "none" /\ stream = <<>>
          ELSE waiter.pc = "done" /\ AllAppended
    /\ targeted.pc \in {"call", "sub", "query", "post", "return", "xadd", "wait",
                        "except"} => waiter.pc = "none"

\* the waiter is running after two posts were appended
C17_Witness ==
    /\ waiter.pc = "poll"
    /\ targeted.pc = "waiting"
    /\ Len(targeted.posts) = 2
    /\ Len(stream) = 2

(* ------------------------------------------------ properties of consume_batch *)

\* the tickers the tickers field of a payload holds
EntryTickers(payload) ==
    {payload.tickers[i] : i \in {j \in DOMAIN payload.tickers : payload.tickers[j] # ","}}

\* the rows of the store written for entry m
RowsOf(m) == {i \in DOMAIN store : store[i].msg_id = m}

\* the run of slot r has ended
Ended(r) == run[r].pc = "idle" /\ run[r].outcome # "none"

\* entry i exists and was delivered at least n times
Delivered(i, n) == i <= Len(stream) /\ deliveries[i] >= n

\* entry i was delivered, is not acknowledged, and no run is working on it:
\* the run that read it ended in the top-level handler
Faulted(i) ==
    /\ i <= Len(stream)
    /\ deliveries[i] >= 1
    /\ i \notin acked
    /\ \A r \in Slots : ~(run[r].pc # "idle" /\ run[r].msg_id = i)

\* C1: an entry is acknowledged only after every per-ticker write of the run
\* that read it has succeeded: whenever a run ends with an ack, each ticker of
\* its entry has a successful insert by that run.
C1_AckOnlyAfterAllWrites ==
    \A r \in Slots :
        run[r].outcome = "acked" =>
            \A t \in EntryTickers(run[r].payload) :
                \E a \in Range(run[r].attempts) : a.ticker = t /\ a.ok

C3_FaultedEntryRedelivered ==
    \A i \in 1..MaxStream : [](Faulted(i) => <>Delivered(i, 2))

\* C3 amended: a run that faults at the top level after reading an entry ends
\* without acking it; the entry stays pending for "worker-1", behind the group's
\* cursor, and is never delivered a second time.
C3_FaultedEntryStaysPending ==
    \A i \in 1..Len(stream) :
        Faulted(i) => /\ i \in pel
                      /\ i <= last_delivered
                      /\ deliveries[i] = 1

C3_Witness ==
    \E i \in 1..Len(stream), r \in Slots :
        /\ Faulted(i)
        /\ run[r].msg_id # i
        /\ run[r].outcome = "empty"

\* C4: every entry appended to the stream is eventually delivered to a run, and
\* the group's cursor never passes an entry that was not delivered.
C4_EveryEntryEventuallyRead ==
    /\ [](\A i \in 1..Len(stream) : i <= last_delivered => deliveries[i] >= 1)
    /\ \A i \in 1..MaxStream : (Len(stream) >= i) ~> Delivered(i, 1)

C4_Witness ==
    /\ Len(stream) = MaxStream
    /\ ~stream[1].wellformed
    /\ \A i \in 1..Len(stream) : deliveries[i] = 1

\* C5: a read never returns an entry that is pending (read and not acked), and
\* returns nothing when every entry of the stream has already been delivered.
C5_PendingEntryNotReadAgain ==
    [][\A r \in Slots :
          (run[r].pc = "read" /\ run'[r].pc # "read") =>
              /\ run'[r].msg_id \notin pel
              /\ (\A i \in 1..Len(stream) : deliveries[i] >= 1) =>
                    (run'[r].msg_id = 0 /\ run'[r].pc = "idle")]_vars

C5_Witness ==
    \E r \in Slots :
        /\ run[r].outcome = "empty"
        /\ pel # {}
        /\ \A i \in pel : Faulted(i)

\* C6: a run without faults on an entry holding k distinct tickers calls the
\* classifier once, adds exactly k rows, one per ticker, all with the entry's
\* source id and the same score, pos_prob and neg_prob, and acks the entry.
C6_OneRowPerTicker ==
    \A r \in Slots :
        (run[r].outcome = "acked" /\ \A a \in Range(run[r].attempts) : a.ok) =>
            LET m == run[r].msg_id
                payload == stream[m].payload
            IN  /\ run[r].calls = 1
                /\ Cardinality(RowsOf(m)) = Cardinality(EntryTickers(payload))
                /\ {store[i].ticker : i \in RowsOf(m)} = EntryTickers(payload)
                /\ \A i, j \in RowsOf(m) :
                      /\ store[i].reddit_id = payload.id
                      /\ store[i].score = store[j].score
                      /\ store[i].pos_prob = store[j].pos_prob
                      /\ store[i].neg_prob = store[j].neg_prob
                /\ m \in acked

C6_Witness ==
    \E r \in Slots :
        /\ run[r].outcome = "acked"
        /\ \A a \in Range(run[r].attempts) : a.ok
        /\ Cardinality(EntryTickers(run[r].payload)) = 2
        /\ Cardinality(RowsOf(run[r].msg_id)) = 2

\* the run of slot r classified its entry and a failure of the classifier
\* decided the triple
ClassifierFailed(r) == run[r].classified \in {"keywords", "handler"}

\* the triple of the rows written for entry m
TriplesOf(m) == {<<store[i].score, store[i].pos_prob, store[i].neg_prob>> : i \in RowsOf(m)}

\* C13 as stated: whenever the classifier fails, because inference raises or
\* because the model cannot be loaded, the run goes on to the writes and the ack
\* with the neutral triple (0, 0.33, 0.33).
C13_FailureGivesNeutralTriple ==
    \A r \in SerialSlots :
        ClassifierFailed(r) =>
            /\ run[r].pc \in {"insert", "ack"} \/ run[r].outcome \in {"acked", "fault_ack"}
            /\ run[r].score = <<0, 33, 33>>

\* C13, amended: a failure of the classifier never ends the run, which goes on
\* to the writes and the ack; the rows carry (0, 0.33, 0.33) when inference
\* raised, and the triple of the keyword count over the text when the model
\* could not be loaded.
C13_FailureNeverAbortsRun ==
    \A r \in SerialSlots :
        ClassifierFailed(r) =>
            /\ run[r].pc \in {"insert", "ack"} \/ run[r].outcome \in {"acked", "fault_ack"}
            /\ run[r].pc = "idle" =>
                  Len(run[r].attempts) = Len(Split(run[r].payload.tickers))
            /\ run[r].classified = "handler" =>
                  /\ run[r].score = <<0, 33, 33>>
                  /\ TriplesOf(run[r].msg_id) \subseteq {<<0, 33, 33>>}
            /\ run[r].classified = "keywords" =>
                  /\ run[r].score = fallback_sentiment(scoring_text(run[r].payload))
                  /\ TriplesOf(run[r].msg_id) \subseteq
                        {<<50, 70, 20>>, <<-50, 20, 70>>, <<0, 40, 40>>}

\* a run whose model could not be loaded has written a row with the keyword
\* count's positive triple and acknowledged its entry
C13_Witness ==
    \E r \in SerialSlots :
        /\ Ended(r)
        /\ run[r].outcome = "acked"
        /\ run[r].classified = "keywords"
        /\ TriplesOf(run[r].msg_id) = {<<50, 70, 20>>}

\* C14: a failed insert for one ticker of an entry does not keep the insert for
\* any other ticker of the entry from being attempted: a run that classified
\* its entry ends with exactly one attempt per ticker of the tickers field, in
\* the field's order, whichever attempts failed.
C14_EveryTickerAttemptedOnce ==
    \A r \in SerialSlots :
        /\ (run[r].pc = "ack" \/ (Ended(r) /\ run[r].calls = 1)) =>
              /\ Len(run[r].attempts) = Len(Split(run[r].payload.tickers))
              /\ \A k \in DOMAIN run[r].attempts :
                    run[r].attempts[k].ticker = Split(run[r].payload.tickers)[k]
        /\ run[r].pc = "insert" =>
              Len(run[r].attempts) + Len(run[r].todo) = Len(Split(run[r].payload.tickers))

\* a run has ended whose first insert failed and whose second insert wrote its row
C14_Witness ==
    \E r \in SerialSlots :
        /\ Ended(r)
        /\ Len(run[r].attempts) = 2
        /\ ~run[r].attempts[1].ok
        /\ run[r].attempts[2].ok
        /\ Cardinality(RowsOf(run[r].msg_id)) = 1

\* C23: the store is append-only.  No step of a consume_batch run changes or
\* removes a row, and every INSERT that succeeds adds one row with the entry's
\* source id and the ticker, also when the same event was processed before and
\* its rows are in the store.
C23_StoreAppendOnly ==
    [][ /\ Len(store') \in {Len(store), Len(store) + 1}
        /\ SubSeq(store', 1, Len(store)) = store
        /\ \A r \in SerialSlots :
              (/\ run[r].pc = "insert"
               /\ Len(run'[r].attempts) = Len(run[r].attempts) + 1
               /\ run'[r].attempts[Len(run'[r].attempts)].ok) =>
                 /\ Len(store') = Len(store) + 1
                 /\ store'[Len(store')].reddit_id = run[r].payload.id
                 /\ store'[Len(store')].ticker = Head(run[r].todo)
                 /\ store'[Len(store')].msg_id = run[r].msg_id
      ]_vars

\* the same event was appended twice and processed twice: the store holds two
\* rows for its source id and ticker, one per entry
C23_Witness ==
    /\ Len(stream) = 2
    /\ stream[1] = stream[2]
    /\ stream[1].wellformed
    /\ acked = {1, 2}
    /\ \E i, j \in DOMAIN store :
          /\ i < j
          /\ store[i].reddit_id = store[j].reddit_id
          /\ store[i].ticker = store[j].ticker
          /\ store[i].msg_id = 1
          /\ store[j].msg_id = 2

\* C24: consume_batch creates the group at the start of the stream when it is
\* absent and goes on when it exists already.  A run that creates the group
\* while entries are on the stream reads the oldest of them; a run that finds
\* the group goes on to its read with the cursor where it was; the cursor never
\* passes an entry that was not delivered.
C24_GroupCreatedAtStartOrKept ==
    [][ /\ \A r \in SerialSlots :
              (run[r].pc = "group" /\ run'[r] # run[r] /\ queue_errors' = queue_errors) =>
                 /\ run'[r].pc = "read"
                 /\ group_exists'
                 /\ last_delivered' = IF group_exists THEN last_delivered ELSE 0
        /\ \A r \in SerialSlots :
              (run'[r].backlog >= 1 /\ run'[r].pc \in {"score", "insert", "ack"}) =>
                 run'[r].msg_id = 1
        /\ \A i \in 1..Len(stream') : i <= last_delivered' => deliveries'[i] >= 1
      ]_vars

\* the run that created the group with two entries on the stream has read the
\* first of them and acknowledged it
C24_Witness ==
    \E r \in SerialSlots :
        /\ Ended(r)
        /\ run[r].outcome = "acked"
        /\ run[r].backlog = 2
        /\ run[r].msg_id = 1
        /\ acked = {1}

\* C25: with one consumer instance whose runs do not overlap, entries are
\* processed in append order and one at a time: while a run works on an entry,
\* every earlier entry was delivered and its run has ended (acknowledged, or
\* left unacknowledged by a fault), and the rows of the store are in the order
\* of their entries.
C25_ProcessedInAppendOrder ==
    /\ \A i, j \in DOMAIN store : i < j => store[i].msg_id <= store[j].msg_id
    /\ \A r \in SerialSlots :
          run[r].pc \in {"score", "insert", "ack"} =>
              /\ \A k \in 1..(run[r].msg_id - 1) : k \in acked \/ Faulted(k)
              /\ \A i \in DOMAIN store : store[i].msg_id <= run[r].msg_id
    /\ \A i \in DOMAIN store :
          \A k \in 1..(store[i].msg_id - 1) : deliveries[k] >= 1

\* two entries were processed one after the other and the store holds the
\* rows of the first before those of the second
C25_Witness ==
    /\ acked = {1, 2}
    /\ Len(store) >= 2
    /\ store[1].msg_id = 1
    /\ store[Len(store)].msg_id = 2
    /\ \A r \in SerialSlots : Ended(r)

\* entry i cannot be decoded and the run that read it has faulted on it
Poisoned(i) == Faulted(i) /\ ~stream[i].wellformed

\* C26: an entry whose processing faulted at the top level, a poison entry
\* among them, is never acknowledged and stays delivered and unacknowledged for
\* ever: no step delivers it again, acknowledges it, writes a row for it or
\* moves it off the stream.
C26_FaultedEntryPendingForever ==
    [][ \A i \in 1..Len(stream) :
           Faulted(i) =>
              /\ i \in pel' /\ i \notin acked'
              /\ deliveries'[i] = deliveries[i]
              /\ Len(stream') >= Len(stream) /\ stream'[i] = stream[i]
              /\ \A r \in Slots : ~(run'[r].pc # "idle" /\ run'[r].msg_id = i)
              /\ {k \in DOMAIN store' : store'[k].msg_id = i} = RowsOf(i)
      ]_vars

\* a poison entry is pending, and a run after the one that faulted on it has
\* come back empty
C26_Witness ==
    \E r \in SerialSlots :
        /\ Len(stream) = 1
        /\ Poisoned(1)
        /\ RowsOf(1) = {}
        /\ run[r].outcome = "empty"

\* C27: an entry left unacknowledged by a faulted run does not block the
\* pipeline: it is never a candidate of a later read, and every entry appended
\* after it is read by a later run, which processes it to its end (the entry is
\* acknowledged unless that run faults on it in turn, which takes an entry that
\* cannot be decoded or a transport error).
C27_FaultedEntryDoesNotBlock ==
    /\ [](\A i \in 1..Len(stream) : Faulted(i) => i \notin readable)
    /\ [](\A j \in 1..Len(stream) :
             Faulted(j) => ~stream[j].wellformed \/ queue_errors >= 1)
    /\ \A i \in 1..MaxStream : \A j \in 1..MaxStream :
          (i < j /\ Len(stream) >= j /\ Faulted(i))
              ~> (j \in acked \/ Faulted(j))

\* the first entry is left unacknowledged by a faulted run and the second was
\* read, written and acknowledged
C27_Witness ==
    /\ Len(stream) = 2
    /\ Faulted(1)
    /\ 2 \in acked
    /\ RowsOf(2) # {}

\* run r holds an entry: it has read one in its current or last execution
Holds(r) == run[r].msg_id # 0

\* C28: when runs overlap in time and all read as "worker-1", no entry is
\* delivered to two runs: every entry is delivered at most once, two runs never
\* hold the same entry, every entry has at most one row per ticker, and a step
\* that acknowledges an entry is a step of the run that read it.
C28_NoEntryDeliveredToTwoRuns ==
    /\ [](\A i \in 1..Len(stream) : deliveries[i] <= 1)
    /\ [](\A r1 \in Slots : \A r2 \in Slots :
             (r1 # r2 /\ Holds(r1) /\ Holds(r2)) => run[r1].msg_id # run[r2].msg_id)
    /\ [](\A i \in 1..Len(stream) : \A k1 \in RowsOf(i) : \A k2 \in RowsOf(i) :
             store[k1].ticker = store[k2].ticker => k1 = k2)
    /\ [][ \A i \in acked' \ acked :
              \E r \in Slots : /\ run[r].pc = "ack" /\ run[r].msg_id = i
                               /\ run'[r].pc = "idle" /\ run'[r].outcome = "acked"
                               /\ \A o \in Slots \ {r} : run'[o] = run[o]
         ]_vars

\* two runs execute at the same time, each on an entry of its own
C28_Witness ==
    /\ run[1].pc \in {"score", "insert", "ack"}
    /\ run[2].pc \in {"score", "insert", "ack"}
    /\ run[1].msg_id # run[2].msg_id

(* ------------------------------------------------ the waiter and the triggered events *)

\* the rows of the awaited ticker scored within the last 0.05 hours
FreshRows ==
    {i \in DOMAIN store : /\ store[i].ticker = waiter.ticker
                          /\ store[i].scored_ts >= now - RecentWindow}

\* C29: the success of wait_for_processing does not depend on the triggered
\* events: a poll ends the wait with "completed" exactly when the store can be
\* read and holds any row of the ticker scored within the last 0.05 hours,
\* whatever post the row is of and whatever was read from the stream, and goes
\* to sleep otherwise.
C29_SuccessIndependentOfTriggeredEvents ==
    [][ (waiter.pc = "poll" /\ waiter' # waiter) =>
           IF waiter.db_ok /\ FreshRows # {}
           THEN waiter'.pc = "done" /\ waiter'.log = "completed"
           ELSE waiter'.pc = "sleep"
      ]_vars

\* the wait ended with success at its first poll, on a row written before the
\* call for a post that was not triggered, while every triggered entry is on
\* the stream and none has been read
C29_Witness ==
    /\ waiter.pc = "done"
    /\ waiter.log = "completed"
    /\ now = waiter.start_time
    /\ AllAppended
    /\ Len(stream) = 2
    /\ last_delivered = 0
    /\ \A i \in DOMAIN stream : deliveries[i] = 0
    /\ \A i \in DOMAIN store :
          /\ store[i].scored_ts < waiter.start_time
          /\ \A k \in DOMAIN targeted.enqueued : store[i].reddit_id # targeted.enqueued[k]

(* ------------------------------------------------ a run that reads no entry *)

\* C30: a run whose read returns no entry (nothing was appended beyond the
\* group's cursor when the read gave up) changes nothing: the step ends the run
\* without an error and without an entry, and leaves the stream, the group, the
\* pending and acknowledged entries and the store as they were.
C30_EmptyReadChangesNothing ==
    /\ [][ \A r \in SerialSlots :
              (/\ run[r].pc = "read" /\ run'[r] # run[r]
               /\ readable = {} /\ queue_errors' = queue_errors)
              => /\ run'[r].pc = "idle" /\ run'[r].outcome = "empty"
                 /\ run'[r].msg_id = 0
                 /\ UNCHANGED <<stream, group_exists, last_delivered, pel, acked,
                                deliveries, store, model_loaded>>
         ]_vars
    /\ [](\A r \in SerialSlots :
             run[r].outcome = "empty" => run[r].pc = "idle" /\ run[r].msg_id = 0)

\* a run came back empty after an earlier run wrote rows for the first entry
\* and acknowledged it and another left the second one pending
C30_Witness ==
    \E r \in SerialSlots :
        /\ run[r].outcome = "empty"
        /\ Len(stream) = 2
        /\ acked = {1}
        /\ pel = {2}
        /\ RowsOf(1) # {}

====
